---- MODULE Spec2Model ----
(***************************************************************************)
(* ZyteJobsComparisonMonitor: the "Jobs Comparison Monitor" of             *)
(* zyte_spidermon.  Two variants of the class exist in the repository:     *)
(*   "legacy"   src/zyte_spidermon/jobs_comparison.py                      *)
(*   "monitors" src/zyte_spidermon/monitors/jobs_comparison.py             *)
(* The monitors variant adds the argument filter.  It reads the settings   *)
(* through the module-level names SPIDERMON_JOBS_COMPARISON_ARGUMENTS and  *)
(* SPIDERMON_JOBS_COMPARISON_ARGUMENTS_ENABLED, which the module neither   *)
(* defines nor imports, so that _get_jobs raises NameError there.          *)
(*                                                                         *)
(* Python values:  a dict is a function whose DOMAIN is the set of keys    *)
(* present (a missing key is a key outside the DOMAIN); a list or tuple is *)
(* a sequence; a float setting is an exact fraction <<num, den>>.          *)
(***************************************************************************)
EXTENDS Integers, Sequences, FiniteSets, TLC

VARIABLES
    variant,       \* which of the two source files is running
    settings,      \* crawler.settings: name -> value, for the names that are set
    environ,       \* os.environ["SHUB_JOB_DATA"], parsed: a dict with or without "tags"
    listing,       \* the jobs the remote API holds for the spider, newest first,
                   \* as runs <<[job, n], ...>>: n copies of job, then the next run
    pc,            \* position of the monitor
    states,        \* get_threshold / _get_jobs local: state filter
    tags,          \* _get_jobs local: resolved tag filter
    start,         \* _get_jobs local: start offset of the next page
    total_jobs,    \* _get_jobs local: qualifying jobs accumulated
    args,          \* _get_jobs local: desired arguments
    args_enabled,  \* _get_jobs local: whether the argument filter is applied
    calls,         \* page requests issued by the current get_threshold call
    last_len,      \* len(current_jobs) of the most recent page
    api_failed,    \* the most recent jobs.list call raised instead of answering
    outcome,       \* how the last operation ended
    history,       \* completed get_threshold calls: <<[outcome, calls], ...>>
    probe,         \* direct call of the filter on one record: its inputs
    verdict        \* direct call of the filter on one record: its result

vars == <<variant, settings, environ, listing, pc, states, tags, start, total_jobs,
          args, args_enabled, calls, last_len, api_failed, outcome, history, probe,
          verdict>>

(***************************************************************************)
(* Program constants                                                       *)
(***************************************************************************)
SPIDERMON_JOBS_COMPARISON == "SPIDERMON_JOBS_COMPARISON"
SPIDERMON_JOBS_COMPARISON_STATES == "SPIDERMON_JOBS_COMPARISON_STATES"
SPIDERMON_JOBS_COMPARISON_TAGS == "SPIDERMON_JOBS_COMPARISON_TAGS"
SPIDERMON_JOBS_COMPARISON_CLOSE_REASONS == "SPIDERMON_JOBS_COMPARISON_CLOSE_REASONS"
SPIDERMON_JOBS_COMPARISON_THRESHOLD == "SPIDERMON_JOBS_COMPARISON_THRESHOLD"

MAX_API_COUNT == 1000

(***************************************************************************)
(* Bounds of the model                                                     *)
(***************************************************************************)
MaxTarget == 3      \* small target job counts are 1..MaxTarget
MaxItems == 3       \* a job's items field is 1 or 100 * k, k in 1..MaxItems
MaxLen == 3         \* short listings hold at most MaxLen jobs
MaxRuns == 2        \* long listings are made of at most MaxRuns runs
MaxCalls == 2       \* get_threshold is called at most MaxCalls times

(***************************************************************************)
(* Helpers                                                                 *)
(***************************************************************************)
EmptyDict == [k \in {} |-> k]

Min(a, b) == IF a < b THEN a ELSE b

\* ceil(n / d) for an integer n and d > 0
CeilDiv(n, d) == IF n % d = 0 THEN n \div d ELSE (n \div d) + 1

SeqsUpTo(S, n) == UNION {[1..k -> S] : k \in 0..n}

\* dict.get(key, default)
Get(d, key, default) == IF key \in DOMAIN d THEN d[key] ELSE default

RECURSIVE SumOver(_, _)
\* the sum of w[v] * v over the integers v of V
SumOver(V, w) ==
    IF V = {} THEN 0
    ELSE LET v == CHOOSE x \in V : TRUE
         IN  v * w[v] + SumOver(V \ {v}, w)

\* sum(job.get("items", 0) for job in jobs), summed value by value
SumItems(jobs) ==
    LET V == {Get(jobs[i], "items", 0) : i \in DOMAIN jobs}
        w == [v \in V |-> Cardinality({i \in DOMAIN jobs : Get(jobs[i], "items", 0) = v})]
    IN  SumOver(V, w)

\* n copies of job
Rep(job, n) == [i \in 1..n |-> job]

RECURSIVE Expand(_)
\* the listing a sequence of runs stands for
Expand(runs) ==
    IF runs = <<>> THEN <<>>
    ELSE Rep(Head(runs).job, Head(runs).n) \o Expand(Tail(runs))

(***************************************************************************)
(* The remote job-list API (scrapinghub client behind .utils.Client):      *)
(* client.spider.jobs.list(start, state, count, has_tag) answers with the  *)
(* records of the listing from offset start on, at most count of them.     *)
(* The listing is the one that matches the state and tag filter sent.      *)
(***************************************************************************)
JobsList(all, first, count) ==
    IF count <= 0 \/ first >= Len(all) THEN <<>>
    ELSE SubSeq(all, first + 1, Min(first + count, Len(all)))

(***************************************************************************)
(* Client-side filters                                                     *)
(***************************************************************************)
\* Python truth value of job.get("spider_args")
HasSpiderArgs(job) == "spider_args" \in DOMAIN job /\ job["spider_args"] # EmptyDict

\* _has_desired_args ends in KeyError: job["spider_args"] on a record without the key
HasDesiredArgsRaises(job, desired) ==
    /\ ~(desired = EmptyDict /\ ~HasSpiderArgs(job))
    /\ ~(desired = EmptyDict /\ HasSpiderArgs(job))
    /\ "spider_args" \notin DOMAIN job

\* HasDesiredArgs that accepts a record whose spider_args holds the desired
\* arguments among others
HasDesiredArgsSubset(job, desired) ==
    IF desired = EmptyDict /\ ~HasSpiderArgs(job) THEN TRUE
    ELSE IF desired = EmptyDict /\ HasSpiderArgs(job) THEN FALSE
    ELSE IF ~(\A a \in DOMAIN desired : a \in DOMAIN job["spider_args"]) THEN FALSE
    ELSE \A a \in DOMAIN desired : desired[a] = job["spider_args"][a]

\* _has_desired_args, where it returns
HasDesiredArgs(job, desired) ==
    IF desired = EmptyDict /\ ~HasSpiderArgs(job) THEN TRUE
    ELSE IF desired = EmptyDict /\ HasSpiderArgs(job) THEN FALSE
    ELSE IF ~(\A a \in DOMAIN desired : a \in DOMAIN job["spider_args"]) THEN FALSE
    ELSE desired = job["spider_args"]

\* CloseReasonSkips that lets a record without close_reason through
CloseReasonSkipsPresentOnly(job, close_reasons) ==
    /\ close_reasons # <<>>
    /\ "close_reason" \in DOMAIN job
    /\ ~\E i \in DOMAIN close_reasons : close_reasons[i] = job["close_reason"]

\* the close-reason test of the loop body: TRUE when the record is skipped
CloseReasonSkips(job, close_reasons) ==
    /\ close_reasons # <<>>
    /\ ~(/\ "close_reason" \in DOMAIN job
          /\ \E i \in DOMAIN close_reasons : close_reasons[i] = job["close_reason"])

\* the argument test of the loop body is reached and raises
ArgsRaise(job, close_reasons, args_on, wanted) ==
    /\ ~CloseReasonSkips(job, close_reasons)
    /\ args_on
    /\ HasDesiredArgsRaises(job, wanted)

\* the loop body appends the record to total_jobs
Qualifies(job, close_reasons, args_on, wanted) ==
    /\ ~CloseReasonSkips(job, close_reasons)
    /\ ~(args_on /\ ~HasDesiredArgs(job, wanted))

(***************************************************************************)
(* Settings and environment                                                *)
(***************************************************************************)
\* settings.getint(name): 0 when the name is not set
GetInt(name) == Get(settings, name, 0)

\* settings.getfloat(name) as a fraction <<num, den>>, den > 0: 0.0 when not set
GetFloat(name) == Get(settings, name, <<0, 1>>)

\* settings.getlist(name, default)
GetList(name, default) == Get(settings, name, default)

\* alphabetical order of the tags of the model
TagOrder == <<"a", "b", "c">>

\* sorted(S) for a set of tags
Sorted(S) == SelectSeq(TagOrder, LAMBDA t : t \in S)

Range(seq) == {seq[i] : i \in DOMAIN seq}

\* GetTagsToFilter that sends the desired tags without intersecting them
GetTagsToFilterDesired ==
    LET desired_tags == GetList(SPIDERMON_JOBS_COMPARISON_TAGS, <<>>)
        current_tags == Get(environ, "tags", <<>>)
    IN  IF desired_tags = <<>> THEN <<>>
        ELSE IF current_tags = <<>> THEN <<>>
        ELSE Sorted(Range(desired_tags))

\* _get_tags_to_filter
GetTagsToFilter ==
    LET desired_tags == GetList(SPIDERMON_JOBS_COMPARISON_TAGS, <<>>)
        current_tags == Get(environ, "tags", <<>>)
    IN  IF desired_tags = <<>> THEN <<>>
        ELSE IF current_tags = <<>> THEN <<>>
        ELSE Sorted(Range(desired_tags) \cap Range(current_tags))

\* Python's "tags or None"
OrNone(seq) == [none |-> seq = <<>>, value |-> seq]

(***************************************************************************)
(* Outcomes of an operation                                                *)
(***************************************************************************)
Outcome(kind, what, value) == [kind |-> kind, what |-> what, value |-> value]

NoOutcome == Outcome("none", "", 0)
Returned(value) == Outcome("return", "", value)
Raised(kind, what) == Outcome(kind, what, 0)

(***************************************************************************)
(* run: the two configuration checks                                       *)
(***************************************************************************)
\* ConfigError with the target count tested by "< 0"
ConfigErrorZeroAllowed ==
    IF \/ SPIDERMON_JOBS_COMPARISON \notin DOMAIN settings
       \/ GetInt(SPIDERMON_JOBS_COMPARISON) < 0
    THEN Raised("NotConfigured", SPIDERMON_JOBS_COMPARISON)
    ELSE IF \/ SPIDERMON_JOBS_COMPARISON_THRESHOLD \notin DOMAIN settings
            \/ GetFloat(SPIDERMON_JOBS_COMPARISON_THRESHOLD)[1] <= 0
    THEN Raised("NotConfigured", SPIDERMON_JOBS_COMPARISON_THRESHOLD)
    ELSE NoOutcome

\* ConfigError with the two checks in the other order
ConfigErrorThresholdFirst ==
    IF \/ SPIDERMON_JOBS_COMPARISON_THRESHOLD \notin DOMAIN settings
       \/ GetFloat(SPIDERMON_JOBS_COMPARISON_THRESHOLD)[1] <= 0
    THEN Raised("NotConfigured", SPIDERMON_JOBS_COMPARISON_THRESHOLD)
    ELSE IF \/ SPIDERMON_JOBS_COMPARISON \notin DOMAIN settings
            \/ GetInt(SPIDERMON_JOBS_COMPARISON) <= 0
    THEN Raised("NotConfigured", SPIDERMON_JOBS_COMPARISON)
    ELSE NoOutcome

\* the NotConfigured raised by run, or NoOutcome when run goes on to super().run
ConfigError ==
    IF \/ SPIDERMON_JOBS_COMPARISON \notin DOMAIN settings
       \/ GetInt(SPIDERMON_JOBS_COMPARISON) <= 0
    THEN Raised("NotConfigured", SPIDERMON_JOBS_COMPARISON)
    ELSE IF \/ SPIDERMON_JOBS_COMPARISON_THRESHOLD \notin DOMAIN settings
            \/ GetFloat(SPIDERMON_JOBS_COMPARISON_THRESHOLD)[1] <= 0
    THEN Raised("NotConfigured", SPIDERMON_JOBS_COMPARISON_THRESHOLD)
    ELSE NoOutcome

Run ==
    /\ pc = "created"
    /\ outcome' = ConfigError
    /\ pc' = IF ConfigError = NoOutcome THEN "running" ELSE "aborted"
    /\ UNCHANGED <<variant, settings, environ, listing, states, tags, start, total_jobs,
                   args, args_enabled, calls, last_len, api_failed, history, probe,
                   verdict>>

(***************************************************************************)
(* _get_jobs                                                               *)
(***************************************************************************)
\* total_jobs kept from the previous call
StaleTotalJobs == total_jobs

\* start left as the previous fetch set it
StaleStart == start

\* total_jobs = [] and start = 0 at the head of _get_jobs
FreshTotalJobs == <<>>
FreshStart == 0

\* PageCount that always asks for a full page
PageCountFull(number_of_jobs, have) == MAX_API_COUNT

\* PageCount that takes the remaining need from the records fetched so far
PageCountRaw(number_of_jobs, have) == Min(number_of_jobs - start, MAX_API_COUNT)

\* count = min(number_of_jobs - len(total_jobs), MAX_API_COUNT)
PageCount(number_of_jobs, have) == Min(number_of_jobs - have, MAX_API_COUNT)

\* the for loop over a page: the records it appends to total_jobs
FilterPage(current_jobs, close_reasons, args_on, wanted) ==
    SelectSeq(current_jobs, LAMBDA job : Qualifies(job, close_reasons, args_on, wanted))

\* the for loop over a page ends in KeyError
FilterPageRaises(current_jobs, close_reasons, args_on, wanted) ==
    \E i \in DOMAIN current_jobs : ArgsRaise(current_jobs[i], close_reasons, args_on, wanted)

\* StopPaging that goes on until the target count is exceeded
StopPagingStrict(got, have, number_of_jobs) == got < MAX_API_COUNT \/ have > number_of_jobs

\* StopPaging that stops on a short page only
StopPagingShortOnly(got, have, number_of_jobs) == got < MAX_API_COUNT

\* StopPaging that stops only once the target count is reached
StopPagingTargetOnly(got, have, number_of_jobs) == have >= number_of_jobs

\* the break condition of the while loop
StopPaging(got, have, number_of_jobs) == got < MAX_API_COUNT \/ have >= number_of_jobs

\* NextStart that begins the next page on the last record of this one
NextStartOverlap(from, got) == from + got - 1

\* start += len(current_jobs)
NextStart(from, got) == from + got

\* the request sent for a page
Request(from, count) ==
    [start |-> from, state |-> states, count |-> count, has_tag |-> OrNone(tags)]

(***************************************************************************)
(* get_threshold                                                           *)
(***************************************************************************)
\* Aggregate that rounds down
AggregateFloor(jobs, threshold) ==
    IF Len(jobs) = 0 THEN Raised("ZeroDivisionError", "")
    ELSE Returned((SumItems(jobs) * threshold[1]) \div (Len(jobs) * threshold[2]))

\* previous_count = sum(items) / len(jobs); math.ceil(previous_count * threshold)
Aggregate(jobs, threshold) ==
    IF Len(jobs) = 0 THEN Raised("ZeroDivisionError", "")
    ELSE Returned(CeilDiv(SumItems(jobs) * threshold[1], Len(jobs) * threshold[2]))

\* a get_threshold call has ended: what the caller saw
Ended(how, requests) == Append(history, [outcome |-> how, calls |-> requests])

\* get_threshold up to the head of the while loop of _get_jobs
GetThreshold ==
    /\ pc = "running"
    /\ Len(history) < MaxCalls
    /\ states' = GetList(SPIDERMON_JOBS_COMPARISON_STATES, <<"finished">>)
    /\ tags' = GetTagsToFilter
    /\ calls' = <<>>
    /\ api_failed' = FALSE
    /\ IF variant = "monitors"
       THEN \* _get_args_to_filter: the name of the setting is not defined
            /\ outcome' = Raised("NameError", "SPIDERMON_JOBS_COMPARISON_ARGUMENTS")
            /\ history' = Ended(outcome', <<>>)
            /\ pc' = "running"
            /\ UNCHANGED <<start, total_jobs, args, args_enabled, last_len>>
       ELSE /\ args' = EmptyDict
            /\ args_enabled' = FALSE
            /\ total_jobs' = FreshTotalJobs
            /\ start' = FreshStart
            /\ last_len' = 0
            /\ outcome' = NoOutcome
            /\ pc' = "paging"
            /\ UNCHANGED history
    /\ UNCHANGED <<variant, settings, environ, listing, probe, verdict>>

\* one iteration of the while loop of _get_jobs
FetchPage ==
    /\ pc = "paging"
    /\ LET number_of_jobs == GetInt(SPIDERMON_JOBS_COMPARISON)
           close_reasons == GetList(SPIDERMON_JOBS_COMPARISON_CLOSE_REASONS, <<>>)
           count == PageCount(number_of_jobs, Len(total_jobs))
           current_jobs == JobsList(Expand(listing), start, count)
           grown == total_jobs \o FilterPage(current_jobs, close_reasons, args_enabled, args)
       IN  /\ calls' = Append(calls, Request(start, count))
           /\ last_len' = Len(current_jobs)
           /\ api_failed' = FALSE
           /\ IF FilterPageRaises(current_jobs, close_reasons, args_enabled, args)
              THEN /\ outcome' = Raised("KeyError", "spider_args")
                   /\ history' = Ended(outcome', calls')
                   /\ pc' = "running"
                   /\ UNCHANGED <<start, total_jobs>>
              ELSE /\ total_jobs' = grown
                   /\ IF StopPaging(Len(current_jobs), Len(grown), number_of_jobs)
                      THEN pc' = "fetched" /\ UNCHANGED start
                      ELSE pc' = "paging" /\ start' = NextStart(start, Len(current_jobs))
                   /\ UNCHANGED <<outcome, history>>
    /\ UNCHANGED <<variant, settings, environ, listing, states, tags, args, args_enabled,
                   probe, verdict>>

\* ApiFailure that has get_threshold go on with the jobs collected so far
ApiFailureSwallowed(error) ==
    Aggregate(total_jobs, GetFloat(SPIDERMON_JOBS_COMPARISON_THRESHOLD))

\* no try/except around jobs.list, in _get_jobs or in get_threshold: what the
\* call raises is how get_threshold ends
ApiFailure(error) == Raised(error, "jobs.list")

\* one iteration of the while loop in which jobs.list raises
FetchFails ==
    /\ pc = "paging"
    /\ LET number_of_jobs == GetInt(SPIDERMON_JOBS_COMPARISON)
           count == PageCount(number_of_jobs, Len(total_jobs))
       IN  calls' = Append(calls, Request(start, count))
    /\ api_failed' = TRUE
    /\ outcome' = ApiFailure("ApiError")
    /\ history' = Ended(outcome', calls')
    /\ pc' = "running"
    /\ UNCHANGED <<variant, settings, environ, listing, states, tags, start, total_jobs,
                   args, args_enabled, last_len, probe, verdict>>

\* get_threshold after _get_jobs has returned
Compute ==
    /\ pc = "fetched"
    /\ outcome' = Aggregate(total_jobs, GetFloat(SPIDERMON_JOBS_COMPARISON_THRESHOLD))
    /\ history' = Ended(outcome', calls)
    /\ pc' = "running"
    /\ UNCHANGED <<variant, settings, environ, listing, states, tags, start, total_jobs,
                   args, args_enabled, calls, last_len, api_failed, probe, verdict>>

(***************************************************************************)
(* The loop body of _get_jobs on one record, called directly               *)
(***************************************************************************)
Verdict(has_desired_args, record) ==
    [has_desired_args |-> has_desired_args, record |-> record]

\* what lines "for job in current_jobs: ..." do with probe.job
BodyVerdict(job, close_reasons, args_on, wanted) ==
    IF CloseReasonSkips(job, close_reasons) THEN Verdict("not called", "skipped")
    ELSE IF ~args_on THEN Verdict("not called", "appended")
    ELSE IF HasDesiredArgsRaises(job, wanted) THEN Verdict("KeyError", "KeyError")
    ELSE IF HasDesiredArgs(job, wanted) THEN Verdict("True", "appended")
    ELSE Verdict("False", "skipped")

LoopBody ==
    /\ pc = "body"
    /\ verdict' = BodyVerdict(probe.job, probe.close_reasons, probe.args_on, probe.wanted)
    /\ pc' = "body done"
    /\ UNCHANGED <<variant, settings, environ, listing, states, tags, start, total_jobs,
                   args, args_enabled, calls, last_len, api_failed, outcome, history,
                   probe>>

(***************************************************************************)
(* Initial states                                                          *)
(***************************************************************************)
\* {name: v} for each v of values, and {} when the name may be left out
Setting(name, values, optional) ==
    {name :> v : v \in values} \cup (IF optional THEN {EmptyDict} ELSE {})

ItemValues == {1} \cup {100 * k : k \in 1..MaxItems}

\* job records: close_reason and items present or not
Jobs ==
    {("close_reason" :> "finished") @@ ("items" :> i) : i \in ItemValues}
    \cup {("close_reason" :> "finished"),
          ("close_reason" :> "cancelled") @@ ("items" :> 1),
          ("items" :> 1)}

\* the listing that holds exactly the jobs of seq
Single(seq) == [i \in DOMAIN seq |-> [job |-> seq[i], n |-> 1]]

ShortListings == {Single(seq) : seq \in SeqsUpTo(Jobs, MaxLen)}

Thresholds == {<<0, 1>>, <<-1, 2>>, <<9, 10>>, <<3, 2>>}

\* the optional settings and the environment that go with them
Extras ==
    {[set |-> EmptyDict, env |-> EmptyDict],
     [set |-> SPIDERMON_JOBS_COMPARISON_STATES :> <<"finished", "deleted">>,
      env |-> "tags" :> <<"b", "c">>],
     [set |-> SPIDERMON_JOBS_COMPARISON_TAGS :> <<"b", "a">>, env |-> "tags" :> <<"b", "c">>]}

SettingsOf(targets, thresholds, optional) ==
    {a @@ b @@ c :
        a \in Setting(SPIDERMON_JOBS_COMPARISON, targets, optional),
        b \in Setting(SPIDERMON_JOBS_COMPARISON_THRESHOLD, thresholds, optional),
        c \in Setting(SPIDERMON_JOBS_COMPARISON_CLOSE_REASONS, {<<"finished">>}, TRUE)}

NoProbe == [job |-> EmptyDict, close_reasons |-> <<>>, args_on |-> FALSE, wanted |-> EmptyDict]

\* the monitor as constructed, before run
Created ==
    /\ states = <<>>
    /\ tags = <<>>
    /\ start = 0
    /\ total_jobs = <<>>
    /\ args = EmptyDict
    /\ args_enabled = FALSE
    /\ calls = <<>>
    /\ last_len = 0
    /\ api_failed = FALSE
    /\ outcome = NoOutcome
    /\ history = <<>>
    /\ verdict = Verdict("not called", "none")

\* every configuration, valid or not, over short listings; a run that aborts in
\* run never reads the listing, and is started over two listings only
Init ==
    /\ variant \in {"legacy", "monitors"}
    /\ \E t \in Extras :
          /\ environ = t.env
          /\ settings \in {s @@ t.set : s \in SettingsOf(-1..MaxTarget, Thresholds, TRUE)}
    /\ listing \in IF ConfigError = NoOutcome THEN ShortListings
                   ELSE {<<>>, Single(<<("close_reason" :> "finished") @@ ("items" :> 1)>>)}
    /\ pc = "created"
    /\ probe = NoProbe
    /\ Created

Next == Run \/ GetThreshold \/ FetchPage \/ Compute

Spec == Init /\ [][Next]_vars

(***************************************************************************)
(* Long listings: pagination over pages of MAX_API_COUNT records           *)
(***************************************************************************)
PagingJobs ==
    {("close_reason" :> "finished") @@ ("items" :> 1),
     ("close_reason" :> "cancelled") @@ ("items" :> 100)}

RunLengths == {1, MAX_API_COUNT, 3 * MAX_API_COUNT}

LongListings == SeqsUpTo([job : PagingJobs, n : RunLengths], MaxRuns)

PagingTargets ==
    (1..MaxTarget)
    \cup {MAX_API_COUNT, MAX_API_COUNT + 1, MAX_API_COUNT + (MAX_API_COUNT \div 2),
          2 * MAX_API_COUNT + (MAX_API_COUNT \div 2)}

\* valid configurations over long listings
InitPaging ==
    /\ variant \in {"legacy", "monitors"}
    /\ environ = EmptyDict
    /\ settings \in SettingsOf(PagingTargets, {<<9, 10>>}, FALSE)
    /\ listing \in LongListings
    /\ pc = "created"
    /\ probe = NoProbe
    /\ Created

SpecPaging == InitPaging /\ [][Next]_vars

\* listings whose runs are maximal: neighbouring runs hold different records
FetchListings ==
    {runs \in LongListings : \A i \in 1..(Len(runs) - 1) : runs[i].job # runs[i + 1].job}

FetchTargets ==
    {1, MaxTarget, MAX_API_COUNT, 2 * MAX_API_COUNT + (MAX_API_COUNT \div 2)}

\* valid configurations over long listings, for fetches followed step by step
InitFetching ==
    /\ variant \in {"legacy", "monitors"}
    /\ environ = EmptyDict
    /\ settings \in SettingsOf(FetchTargets, {<<9, 10>>}, FALSE)
    /\ listing \in FetchListings
    /\ pc = "created"
    /\ probe = NoProbe
    /\ Created

\* the calls are synchronous: a loop iteration that can run does run, and so
\* does the aggregation after the loop
\* weak fairness of FetchPage, with ENABLED <<FetchPage>>_vars written out:
\* an iteration appends to calls, so it is enabled exactly when pc = "paging"
FairFetchPage == []<>(pc # "paging") \/ []<><<FetchPage>>_vars

SpecPagingFair == InitFetching /\ [][Next]_vars /\ FairFetchPage /\ WF_vars(Compute)

\* the same fetches against an API whose calls may fail
NextFailing == Next \/ FetchFails

SpecFailing == InitFetching /\ [][NextFailing]_vars

(***************************************************************************)
(* The loop body on single records                                         *)
(***************************************************************************)
SpiderArgs ==
    {EmptyDict,
     "is_full_crawl" :> "True",
     "is_full_crawl" :> "False",
     ("is_full_crawl" :> "True") @@ ("extra" :> "1"),
     "extra" :> "1"}

BodyJobs ==
    {a @@ b : a \in Setting("close_reason", {"finished", "cancelled"}, TRUE),
              b \in Setting("spider_args", SpiderArgs, TRUE)}

InitBody ==
    /\ variant = "monitors"
    /\ settings = EmptyDict
    /\ environ = EmptyDict
    /\ listing = <<>>
    /\ pc = "body"
    /\ Created
    /\ probe \in [job : BodyJobs, close_reasons : {<<>>, <<"finished">>},
                  args_on : BOOLEAN, wanted : SpiderArgs]

NextBody == LoopBody

SpecBody == InitBody /\ [][NextBody]_vars

(***************************************************************************)
(* Tag settings and tags of the current job                                *)
(***************************************************************************)
TagLists == {<<>>, <<"b", "a">>, <<"c", "b", "c">>, <<"a">>, <<"c", "a", "b">>}

\* valid configurations, every pair of desired and current tags
InitTags ==
    /\ variant \in {"legacy", "monitors"}
    /\ environ \in Setting("tags", TagLists, TRUE)
    /\ settings \in {s @@ t : s \in SettingsOf(1..MaxTarget, {<<9, 10>>}, FALSE),
                              t \in Setting(SPIDERMON_JOBS_COMPARISON_TAGS, TagLists, TRUE)}
    /\ listing \in {Single(seq) : seq \in SeqsUpTo(PagingJobs, 1)}
    /\ pc = "created"
    /\ probe = NoProbe
    /\ Created

SpecTags == InitTags /\ [][Next]_vars

(***************************************************************************)
(* Properties                                                              *)
(***************************************************************************)
TargetSet == SPIDERMON_JOBS_COMPARISON \in DOMAIN settings
ThresholdSet == SPIDERMON_JOBS_COMPARISON_THRESHOLD \in DOMAIN settings
TargetInvalid == ~TargetSet \/ settings[SPIDERMON_JOBS_COMPARISON] <= 0
ThresholdInvalid == ~ThresholdSet \/ settings[SPIDERMON_JOBS_COMPARISON_THRESHOLD][1] <= 0

\* no page request has been issued since the monitor was created
NoApiCall == calls = <<>> /\ history = <<>>

AbortedWith(name) ==
    /\ pc = "aborted"
    /\ outcome = [kind |-> "NotConfigured", what |-> name, value |-> 0]
    /\ NoApiCall

\* C1: when the target job count is absent or <= 0, run aborts with the
\* NotConfigured of SPIDERMON_JOBS_COMPARISON and no page request has been made,
\* whatever the other settings are.
C1_TargetNotConfigured ==
    (TargetInvalid /\ pc # "created") => AbortedWith("SPIDERMON_JOBS_COMPARISON")

C1_Witness ==
    /\ pc = "aborted"
    /\ TargetSet
    /\ settings[SPIDERMON_JOBS_COMPARISON] = 0
    /\ ~ThresholdInvalid
    /\ SPIDERMON_JOBS_COMPARISON_CLOSE_REASONS \in DOMAIN settings
    /\ listing # <<>>

\* C2: with a valid target count and a threshold absent or <= 0, run aborts with
\* the NotConfigured of SPIDERMON_JOBS_COMPARISON_THRESHOLD before any page
\* request; with both settings invalid the abort is the target-count one.
C2_ThresholdNotConfigured ==
    (ThresholdInvalid /\ pc # "created") =>
        IF TargetInvalid THEN AbortedWith("SPIDERMON_JOBS_COMPARISON")
        ELSE AbortedWith("SPIDERMON_JOBS_COMPARISON_THRESHOLD")

C2_Witness ==
    /\ pc = "aborted"
    /\ ~TargetInvalid
    /\ ThresholdSet
    /\ settings[SPIDERMON_JOBS_COMPARISON_THRESHOLD][1] < 0
    /\ listing # <<>>

Target == settings[SPIDERMON_JOBS_COMPARISON]

CloseReasonFilter ==
    IF SPIDERMON_JOBS_COMPARISON_CLOSE_REASONS \in DOMAIN settings
    THEN Range(settings[SPIDERMON_JOBS_COMPARISON_CLOSE_REASONS]) ELSE {}

\* number of records the listing holds
ListingLen == Len(Expand(listing))

\* records read so far by the current fetch: the listing up to the last offset read
ReadSoFar == start + last_len

\* C3: at every point of the pagination loop and on return, _get_jobs holds at
\* most the target count of qualifying jobs.
C3_AtMostTarget ==
    pc \in {"paging", "fetched", "running"} => Len(total_jobs) <= Target

C3_Witness ==
    /\ pc = "fetched"
    /\ Len(calls) >= 2
    /\ Len(total_jobs) = Target
    /\ CloseReasonFilter # {}
    /\ ReadSoFar > Len(total_jobs)
    /\ ListingLen > ReadSoFar

\* C4: when _get_jobs returns fewer qualifying jobs than the target count, the
\* remote listing was exhausted: no record of the listing lies beyond the last
\* offset read.
C4_FewerOnlyWhenExhausted ==
    (pc = "fetched" /\ Len(total_jobs) < Target) => ReadSoFar >= ListingLen

\* C5: get_threshold never ends in ZeroDivisionError.
C5_NoDivisionByZero ==
    /\ outcome.kind # "ZeroDivisionError"
    /\ \A i \in DOMAIN history : history[i].outcome.kind # "ZeroDivisionError"

ItemsOf(job) == IF "items" \in DOMAIN job THEN job["items"] ELSE 0

RECURSIVE TotalItems(_)
TotalItems(jobs) == IF jobs = <<>> THEN 0 ELSE ItemsOf(Head(jobs)) + TotalItems(Tail(jobs))

ItemsList(jobs) == [i \in DOMAIN jobs |-> ItemsOf(jobs[i])]

AllQualify ==
    \/ CloseReasonFilter = {}
    \/ \A i \in DOMAIN listing :
          /\ "close_reason" \in DOMAIN listing[i].job
          /\ listing[i].job["close_reason"] \in CloseReasonFilter

Counts(requests) == [i \in DOMAIN requests |-> requests[i].count]

\* C7: with every job qualifying and a listing of at least target count
\* records, _get_jobs issues ceil(target / 1000) page requests, each for 1000
\* records except the last, which asks for what is left of the target count.
C7_PageRequests ==
    (pc = "fetched" /\ AllQualify /\ ListingLen >= Target) =>
        LET k == Len(calls)
        IN  /\ MAX_API_COUNT * k >= Target
            /\ MAX_API_COUNT * (k - 1) < Target
            /\ \A i \in 1..(k - 1) : calls[i].count = MAX_API_COUNT
            /\ calls[k].count = Target - MAX_API_COUNT * (k - 1)

C7_Witness ==
    /\ pc = "fetched"
    /\ Target = 2500
    /\ AllQualify
    /\ Counts(calls) = <<1000, 1000, 500>>

\* C8: every call of get_threshold on the same settings, tags and listing ends
\* the same way (same value or same error) after the same page requests.
C8_Idempotent ==
    \A i, j \in DOMAIN history : history[i] = history[j]

C8_Witness ==
    /\ Len(history) = 2
    /\ history[2].outcome.kind = "return"
    /\ Len(history[2].calls) >= 2
    /\ history[2].calls[2].start > 0

\* the records the current fetch has read
Fetched == JobsList(Expand(listing), 0, ReadSoFar)

InCloseReasonFilter(job) ==
    "close_reason" \in DOMAIN job /\ job["close_reason"] \in CloseReasonFilter

CloseReasonsList(jobs) ==
    [i \in DOMAIN jobs |->
        IF "close_reason" \in DOMAIN jobs[i] THEN jobs[i]["close_reason"] ELSE "None"]

\* C9: with a non-empty close_reasons setting the qualifying jobs are the
\* fetched records whose close_reason is in it (a record without close_reason
\* is left out); with an empty one no fetched record is left out.
C9_CloseReasonFilter ==
    pc = "fetched" =>
        IF CloseReasonFilter # {}
        THEN total_jobs = SelectSeq(Fetched, InCloseReasonFilter)
        ELSE total_jobs = Fetched

C9_Witness ==
    /\ pc = "fetched"
    /\ CloseReasonFilter = {"finished"}
    /\ CloseReasonsList(Fetched) = <<"finished", "cancelled", "finished">>
    /\ Len(total_jobs) = 2

\* the record of the probe passed the close-reason test
ProbePastCloseReason ==
    \/ probe.close_reasons = <<>>
    \/ /\ "close_reason" \in DOMAIN probe.job
       /\ probe.job["close_reason"] \in Range(probe.close_reasons)

ProbeArgsPresent == "spider_args" \in DOMAIN probe.job

DesiredTags ==
    IF SPIDERMON_JOBS_COMPARISON_TAGS \in DOMAIN settings
    THEN {settings[SPIDERMON_JOBS_COMPARISON_TAGS][i] :
             i \in DOMAIN settings[SPIDERMON_JOBS_COMPARISON_TAGS]}
    ELSE {}

CurrentTags ==
    IF "tags" \in DOMAIN environ THEN {environ["tags"][i] : i \in DOMAIN environ["tags"]}
    ELSE {}

TagRank == [a |-> 1, b |-> 2, c |-> 3]

\* seq lists the tags of S in alphabetical order, each once
SortedListOf(seq, S) ==
    /\ {seq[i] : i \in DOMAIN seq} = S
    /\ \A i, j \in DOMAIN seq : i < j => TagRank[seq[i]] < TagRank[seq[j]]

TagFilterOk(request) ==
    IF DesiredTags \cap CurrentTags = {}
    THEN request.has_tag.none
    ELSE /\ ~request.has_tag.none
         /\ SortedListOf(request.has_tag.value, DesiredTags \cap CurrentTags)

\* C11: every page request carries as tag filter the sorted, duplicate-free
\* intersection of the desired tags and the current job's tags, and no tag
\* filter at all when that intersection is empty.
C11_TagFilter ==
    /\ \A i \in DOMAIN calls : TagFilterOk(calls[i])
    /\ \A h \in DOMAIN history : \A i \in DOMAIN history[h].calls :
          TagFilterOk(history[h].calls[i])
    /\ (history # <<>> \/ pc = "paging") => SortedListOf(tags, DesiredTags \cap CurrentTags)

C11_Witness ==
    /\ calls # <<>>
    /\ DesiredTags = {"a", "b"}
    /\ CurrentTags = {"b", "c"}
    /\ calls[1].has_tag = [none |-> FALSE, value |-> <<"b">>]

C11_WitnessDisjoint ==
    /\ calls # <<>>
    /\ DesiredTags = {"a"}
    /\ CurrentTags = {"b", "c"}
    /\ calls[1].has_tag.none

\* fetched records the client-side filters left out of total_jobs
Discarded == ReadSoFar - Len(total_jobs)

\* C12 as stated: whatever the filters, a fetch takes at most
\* ceil(target / 1000) page requests.
C12_AtMostCeilOfTarget ==
    pc = "fetched" => Len(calls) <= CeilDiv(Target, MAX_API_COUNT)

\* C12: a fetch takes at most ceil((target + discarded) / 1000) page requests,
\* discarded being the fetched records the client-side filters left out; with
\* nothing discarded that is ceil(target / 1000).
C12_AtMostCeilOfTargetPlusDiscarded ==
    pc = "fetched" =>
        /\ Len(calls) <= CeilDiv(Target + Discarded, MAX_API_COUNT)
        /\ Discarded = 0 => Len(calls) <= CeilDiv(Target, MAX_API_COUNT)

C12_Witness ==
    /\ pc = "fetched"
    /\ Target = MAX_API_COUNT
    /\ Discarded = MAX_API_COUNT
    /\ Len(calls) = 2
    /\ \A i \in DOMAIN calls :
          Len(JobsList(Expand(listing), calls[i].start, calls[i].count)) = MAX_API_COUNT

\* the page the API returned for a request
PageOf(request) == JobsList(Expand(listing), request.start, request.count)

Starts(requests) == [i \in DOMAIN requests |-> requests[i].start]

\* the pages of the requests, one after the other
RECURSIVE Pages(_)
Pages(requests) ==
    IF requests = <<>> THEN <<>>
    ELSE Pages(SubSeq(requests, 1, Len(requests) - 1)) \o PageOf(requests[Len(requests)])

\* C13: the first page request of a fetch has start offset 0 and each later one
\* the previous offset plus the number of records the previous page returned;
\* offsets strictly increase and the pages read, one after the other, are the
\* listing from offset 0 up to the last offset read.
C13_StartOffsets ==
    /\ calls # <<>> => calls[1].start = 0
    /\ \A i \in 2..Len(calls) :
          /\ calls[i].start = calls[i - 1].start + Len(PageOf(calls[i - 1]))
          /\ calls[i].start > calls[i - 1].start
    /\ pc = "fetched" => Pages(calls) = Fetched
    /\ \A h \in DOMAIN history :
          history[h].calls # <<>> => history[h].calls[1].start = 0

C13_Witness ==
    /\ pc = "fetched"
    /\ Len(history) = 1
    /\ Starts(calls) = <<0, MAX_API_COUNT, 2 * MAX_API_COUNT>>
    /\ Len(PageOf(calls[3])) < MAX_API_COUNT

\* a record passes the client-side filter of the settings
PassesFilter(job) == CloseReasonFilter = {} \/ InCloseReasonFilter(job)

\* the qualifying records among the first offset records of a listing
\* given as runs, in the order of the listing
RECURSIVE QualifyingPrefix(_, _)
QualifyingPrefix(runs, offset) ==
    IF runs = <<>> \/ offset <= 0 THEN <<>>
    ELSE LET job == Head(runs).job
             k == Min(Head(runs).n, offset)
         IN  (IF PassesFilter(job) THEN [i \in 1..k |-> job] ELSE <<>>)
                 \o QualifyingPrefix(Tail(runs), offset - k)

\* how many they are
RECURSIVE QualifyingCount(_, _)
QualifyingCount(runs, offset) ==
    IF runs = <<>> \/ offset <= 0 THEN 0
    ELSE LET k == Min(Head(runs).n, offset)
         IN  (IF PassesFilter(Head(runs).job) THEN k ELSE 0)
                 + QualifyingCount(Tail(runs), offset - k)

\* qualifying records of the listing before an offset
QualifyingBefore(offset) == QualifyingCount(listing, offset)

CountOk(request) ==
    /\ request.count = Min(Target - QualifyingBefore(request.start), MAX_API_COUNT)
    /\ request.count >= 1
    /\ request.count <= MAX_API_COUNT

\* C14: every page request asks for min(target - qualifying jobs collected so
\* far, 1000) records, the qualifying jobs being the fetched records that pass
\* the filters; the count is between 1 and 1000.
C14_RequestedCount ==
    /\ \A i \in DOMAIN calls : CountOk(calls[i])
    /\ \A h \in DOMAIN history : \A i \in DOMAIN history[h].calls :
          CountOk(history[h].calls[i])

C14_Witness ==
    /\ pc = "fetched"
    /\ Len(calls) = 2
    /\ calls[2].count < MAX_API_COUNT
    /\ calls[2].count > Target - calls[2].start
    /\ QualifyingBefore(calls[2].start) \in 1..(MAX_API_COUNT - 1)

\* C15: the pagination loop ends: a fetch that has started returns, and it
\* never issues more page requests than the listing has full pages, plus one.
C15_Terminates ==
    /\ [](Len(calls) <= (ListingLen \div MAX_API_COUNT) + 1)
    /\ (pc = "paging") ~> (pc = "fetched")

C15_Witness ==
    /\ pc = "fetched"
    /\ ListingLen >= MAX_API_COUNT
    /\ total_jobs = <<>>
    /\ Len(calls) = (ListingLen \div MAX_API_COUNT) + 1

\* the get_threshold call that is running or ended last has ended in the
\* failure of its last page request
EndedInApiFailure ==
    /\ pc = "running"
    /\ outcome.kind = "ApiError"
    /\ history # <<>>
    /\ history[Len(history)] = [outcome |-> outcome, calls |-> calls]

\* C16: when a jobs.list call fails, get_threshold ends with that failure: the
\* failed request is the last one of the call, it is not sent again, and no
\* threshold is returned.
C16_ApiFailurePropagates ==
    /\ [](api_failed => EndedInApiFailure)
    /\ [][api_failed => (calls' = calls \/ calls' = <<>>)]_vars
    /\ [](\A h \in DOMAIN history :
            history[h].outcome.kind = "ApiError" =>
                \A i, j \in DOMAIN history[h].calls :
                    i < j => history[h].calls[i].start < history[h].calls[j].start)

C16_Witness ==
    /\ api_failed
    /\ Len(calls) = 2
    /\ total_jobs # <<>>
    /\ outcome.kind = "ApiError"

\* C17: _get_jobs returns the qualifying records among the fetched records
\* (the listing up to the last offset read), each once and in the order of the
\* listing; the same holds of what it has collected before each page request.
C17_QualifyingSubsequence ==
    /\ pc = "fetched" => total_jobs = QualifyingPrefix(listing, ReadSoFar)
    /\ pc = "paging" => total_jobs = QualifyingPrefix(listing, start)

C17_Witness ==
    /\ pc = "fetched"
    /\ Len(calls) = 2
    /\ Discarded > 0
    /\ Len(total_jobs) > MAX_API_COUNT
    /\ ListingLen > ReadSoFar

\* C18: _has_desired_args answers True or False for every record, whether its
\* spider_args is a mapping, empty or absent, and never ends in an error; a
\* record without spider_args met with non-empty desired arguments is skipped.
C18_ArgumentFilterTotal ==
    pc = "body done" =>
        /\ verdict.has_desired_args \in {"not called", "True", "False"}
        /\ (/\ ProbePastCloseReason
            /\ probe.args_on
            /\ probe.wanted # EmptyDict
            /\ ~ProbeArgsPresent) => verdict.record = "skipped"

====
